---- MODULE Spec2Model ----
(***************************************************************************)
(* A model of internal/impl/quickfix: the checksum-keyed registry of       *)
(* shared engine handles (fixapp.go) and the input adapter that bridges    *)
(* the engine's callbacks to a pull-based Read (input.go).                 *)
(*                                                                         *)
(* The quickfix engine itself is an external library.  It is modelled by   *)
(* what the adapter sees of it: a constructor and a start that may fail, a *)
(* stop that returns once no callback of the engine is in flight, and      *)
(* worker goroutines (one per session) that invoke the adapter's callbacks *)
(* while the engine runs.  The constructor may invoke OnCreate on the      *)
(* calling goroutine.                                                      *)
(*                                                                         *)
(* Environment assumption: a configuration file that opens is read in      *)
(* full (createChecksum discards io.ReadAll's error, fixapp.go:172; a read *)
(* that fails part-way is outside this model).                             *)
(***************************************************************************)
EXTENDS Integers, Sequences, FiniteSets, TLC

----------------------------------------------------------------------------
(* Bounds of the model *)

\* Start calls on one handle in RegistrySpec
RegStarts == 1
\* Start calls on one handle in HandleSpec
MaxStarts == 3
\* Connect calls issued on one adapter (Spec)
MaxConnects == 2
\* callbacks one engine worker invokes (Spec)
MaxEvents == 2
\* calls of the file processor (FileSpec)
MaxCalls == 2

----------------------------------------------------------------------------
(* Program constants *)

acceptorType == "acceptor"
initiatorType == "initiator"
logFactoryFile == "file"
logFactoryScreen == "screen"
messageStoreMem == "memory"
messageStoreFile == "file"
fixappstatestarted == "started"
fixappstatestopped == "stopped"

createEvent == "create"
logonEvent == "logon"
logoutEvent == "logout"
toAdminEvent == "to_admin"
toAppEvent == "to_app"
fromAdminEvent == "from_admin"
fromAppEvent == "from_app"

ErrNotConnected == "ErrNotConnected"
ErrEndOfInput == "ErrEndOfInput"
ErrCanceled == "context canceled"

\* a nil *fixapp, a nil engine pointer, a nil channel
NoApp == 0
NoEngine == 0
NilChan == 0

\* the roles an adapter's configuration may name: the two known ones and one
\* string that is neither
AppTypes == {acceptorType, initiatorType, "other"}

EventTypes == {createEvent, logonEvent, logoutEvent, toAdminEvent,
               toAppEvent, fromAdminEvent, fromAppEvent}
\* the callbacks that are handed a message (ToAdmin, ToApp, FromAdmin, FromApp)
MessageEvents == {toAdminEvent, toAppEvent, fromAdminEvent, fromAppEvent}

Adapters == {"q1", "q2"}
Paths == {"p1", "p2"}
\* the sessions an engine may have, one worker each
Sessions == {"S1", "S2"}
\* the session of a configuration that declares one
OneSession == {"S1"}
\* the zero value of quickfix.SessionID
ZeroSessionID == ""
\* the messages the engine hands to a callback; "" stands for a nil *Message
Messages == {"m1"}
NilMessage == ""
\* what the engine's message buffer holds once the engine has reused it
Reused == "m0"

\* the configuration file contents tried: they differ in one byte
Contents == {<<0>>, <<1>>}


----------------------------------------------------------------------------
VARIABLES
  files,            \* the file system: path -> [exists, data]
  fixappstore,      \* checksum -> handle (index into apps)
  apps,             \* the fixapp objects stored in the registry
  engines,          \* the engines NewAcceptor/NewInitiator returned
  fixappstorelock,  \* "free" or the adapter whose Connect/Close holds it
  hist,             \* per handle: the calls made on it (history)
  returned,         \* (content, handle, path) of every successful
                    \* GetOrCreateFixApp
  cfg,              \* per adapter: appType, storeType, logType, config
  proc,             \* the file processor: its calls so far and the last one
  eventChan,        \* per adapter: q.eventChan
  chans,            \* every channel made: "open" or "closed"
  mut,              \* per adapter: q.mut, "free" or the goroutine holding it
  ctl,              \* per adapter: the goroutine calling Connect and Close
  rd,               \* per adapter: the goroutine calling Read
  fault             \* "none", or the panic that ended the process

vars == <<files, fixappstore, apps, engines, fixappstorelock, hist, returned,
          cfg, proc, eventChan, chans, mut, ctl, rd, fault>>

regvars == <<fixappstore, apps, engines, hist, returned>>
adaptervars == <<cfg, proc, eventChan, chans, mut, ctl, rd, fixappstorelock, fault>>

----------------------------------------------------------------------------
(* fixapp.go *)

\* sha256 of a byte sequence, as a collision-free code of it
RECURSIVE Sha256(_)
Sha256(t) == IF t = <<>> THEN 1 ELSE (t[1] + 1) + 3 * Sha256(Tail(t))

\* a createChecksum that digests the path instead of the contents
createChecksumOfPath(configPath) ==
  IF ~files[configPath].exists
  THEN [err |-> TRUE, chk |-> 0]
  ELSE [err |-> FALSE, chk |-> IF configPath = "p1" THEN 1 ELSE 2]

\* createChecksum: the error flag and the checksum
createChecksum(configPath) ==
  IF ~files[configPath].exists
  THEN [err |-> TRUE, chk |-> 0]
  ELSE [err |-> FALSE, chk |-> Sha256(files[configPath].data)]

\* GetSettings: opens and parses the file; env.parse is the parser's verdict
GetSettings(configFile, env) ==
  [err |-> ~files[configFile].exists \/ ~env.parse]

createMessageStoreFactory(t) ==
  [err |-> t \notin {messageStoreMem, messageStoreFile}]

\* filelog.NewLogFactory may fail (env.log); the screen factory cannot
createLogFactory(t, env) ==
  CASE t = logFactoryFile -> [err |-> ~env.log]
    [] t = logFactoryScreen -> [err |-> FALSE]
    [] OTHER -> [err |-> TRUE]

\* an engine worker that is in no callback.  Of its last callback it keeps
\* the event built (sessionId, eventType, message, and whether the event's
\* message is the engine's buffer itself: shared), the message the callback
\* was handed (arg) and what the engine's buffer holds now (buf)
IdleWorker == [pc |-> "idle", ch |-> NilChan, n |-> 0, kind |-> "",
               sessionId |-> ZeroSessionID, eventType |-> "",
               message |-> NilMessage, shared |-> FALSE,
               arg |-> NilMessage, buf |-> NilMessage]

\* the engine NewAcceptor/NewInitiator returns: its role, the Application it
\* calls back (app), whether it runs, and its workers, one per session
NewEngine(appType, app) ==
  [kind |-> appType, app |-> app, running |-> FALSE,
   cb |-> [s \in Sessions |-> IdleWorker]]

\* a GetOrCreateFixApp that registers the handle before it constructs the
\* engine, and leaves it registered when the constructor fails
GetOrCreateInsertsFirst(appType, msgStore, logType, app, configFile, chk, env) ==
  LET same == [err |-> FALSE, f |-> NoApp, constructed |-> FALSE,
               store |-> fixappstore, apps |-> apps, engines |-> engines]
      failed == [same EXCEPT !.err = TRUE]
      construct == appType \in {acceptorType, initiatorType}
      e == Len(engines) + 1
      h == Len(apps) + 1
      bare == [chksum |-> chk, acceptor |-> NoEngine, initiator |-> NoEngine,
               state |-> fixappstatestopped, refcount |-> 0]
      f == [bare EXCEPT
              !.acceptor = IF appType = acceptorType THEN e ELSE NoEngine,
              !.initiator = IF appType = initiatorType THEN e ELSE NoEngine]
      inserted == [c \in DOMAIN fixappstore \cup {chk} |->
                     IF c = chk THEN h ELSE fixappstore[c]]
  IN  IF chk \in DOMAIN fixappstore
      THEN [same EXCEPT !.f = fixappstore[chk]]
      ELSE IF GetSettings(configFile, env).err THEN failed
      ELSE IF createMessageStoreFactory(msgStore).err THEN failed
      ELSE IF createLogFactory(logType, env).err THEN failed
      ELSE IF construct /\ ~env.engine
           THEN [failed EXCEPT !.constructed = TRUE, !.store = inserted,
                               !.apps = Append(apps, bare)]
      ELSE [err |-> FALSE, f |-> h, constructed |-> construct,
            store |-> inserted, apps |-> Append(apps, f),
            engines |-> IF construct
                        THEN Append(engines, NewEngine(appType, app))
                        ELSE engines]

\* a GetOrCreateFixApp that builds the store and log factories before it
\* looks the checksum up, so that it rejects kinds it cannot create
GetOrCreateValidatesFirst(appType, msgStore, logType, app, configFile, chk, env) ==
  LET same == [err |-> FALSE, f |-> NoApp, constructed |-> FALSE,
               store |-> fixappstore, apps |-> apps, engines |-> engines]
      failed == [same EXCEPT !.err = TRUE]
      construct == appType \in {acceptorType, initiatorType}
      e == Len(engines) + 1
      f == [chksum |-> chk,
            acceptor |-> IF appType = acceptorType THEN e ELSE NoEngine,
            initiator |-> IF appType = initiatorType THEN e ELSE NoEngine,
            state |-> fixappstatestopped,
            refcount |-> 0]
      h == Len(apps) + 1
  IN  IF GetSettings(configFile, env).err THEN failed
      ELSE IF createMessageStoreFactory(msgStore).err THEN failed
      ELSE IF createLogFactory(logType, env).err THEN failed
      ELSE IF chk \in DOMAIN fixappstore
      THEN [same EXCEPT !.f = fixappstore[chk]]
      ELSE IF construct /\ ~env.engine
           THEN [failed EXCEPT !.constructed = TRUE]
      ELSE [err |-> FALSE,
            f |-> h,
            constructed |-> construct,
            store |-> [c \in DOMAIN fixappstore \cup {chk} |->
                         IF c = chk THEN h ELSE fixappstore[c]],
            apps |-> Append(apps, f),
            engines |-> IF construct
                        THEN Append(engines, NewEngine(appType, app))
                        ELSE engines]

\* The body of GetOrCreateFixApp after createChecksum succeeded, run under
\* fixappstorelock.  env holds what the environment answers: parse (the
\* settings parse), log (the file log factory opens), engine (the
\* constructor succeeds).  Yields the error flag, the handle returned,
\* whether the constructor was invoked, and the registry, handle table and
\* engine table as the call leaves them.
GetOrCreateLocked(appType, msgStore, logType, app, configFile, chk, env) ==
  LET same == [err |-> FALSE, f |-> NoApp, constructed |-> FALSE,
               store |-> fixappstore, apps |-> apps, engines |-> engines]
      failed == [same EXCEPT !.err = TRUE]
      construct == appType \in {acceptorType, initiatorType}
      e == Len(engines) + 1
      f == [chksum |-> chk,
            acceptor |-> IF appType = acceptorType THEN e ELSE NoEngine,
            initiator |-> IF appType = initiatorType THEN e ELSE NoEngine,
            state |-> fixappstatestopped,
            refcount |-> 0]
      h == Len(apps) + 1
  IN  IF chk \in DOMAIN fixappstore
      THEN [same EXCEPT !.f = fixappstore[chk]]
      ELSE IF GetSettings(configFile, env).err THEN failed
      ELSE IF createMessageStoreFactory(msgStore).err THEN failed
      ELSE IF createLogFactory(logType, env).err THEN failed
      ELSE IF construct /\ ~env.engine
           THEN [failed EXCEPT !.constructed = TRUE]
      ELSE [err |-> FALSE,
            f |-> h,
            constructed |-> construct,
            store |-> [c \in DOMAIN fixappstore \cup {chk} |->
                         IF c = chk THEN h ELSE fixappstore[c]],
            apps |-> Append(apps, f),
            engines |-> IF construct
                        THEN Append(engines, NewEngine(appType, app))
                        ELSE engines]

GetOrCreateFixApp(appType, msgStore, logType, app, configFile, env) ==
  LET c == createChecksum(configFile) IN
  IF c.err
  THEN [err |-> TRUE, f |-> NoApp, constructed |-> FALSE,
        store |-> fixappstore, apps |-> apps, engines |-> engines]
  ELSE GetOrCreateLocked(appType, msgStore, logType, app, configFile, c.chk, env)

\* the engine a handle holds: f.acceptor, else f.initiator, else none
EngineOf(f) == IF f.acceptor # NoEngine THEN f.acceptor ELSE f.initiator

\* a fixapp.Start that counts a holder only when it starts the engine
fixappStartCountsOnce(h, ok) ==
  LET f == apps[h]
      e == EngineOf(f)
      starts == f.state # fixappstatestarted
  IN  [err |-> starts /\ (e = NoEngine \/ ~ok),
       engineStart |-> starts /\ e # NoEngine,
       apps |-> IF starts
                THEN [apps EXCEPT ![h].state = fixappstatestarted,
                                  ![h].refcount = f.refcount + 1]
                ELSE apps,
       engines |-> IF starts /\ e # NoEngine /\ ok
                   THEN [engines EXCEPT ![e].running = TRUE]
                   ELSE engines]

\* a fixapp.Start that leaves the handle as it was when the engine's Start
\* fails
fixappStartCleanFailure(h, ok) ==
  LET f == apps[h]
      e == EngineOf(f)
      starts == f.state # fixappstatestarted
      err == starts /\ (e = NoEngine \/ ~ok)
  IN  [err |-> err,
       engineStart |-> starts /\ e # NoEngine,
       apps |-> IF err THEN apps
                ELSE [apps EXCEPT ![h].state = fixappstatestarted,
                                  ![h].refcount = f.refcount + 1],
       engines |-> IF starts /\ e # NoEngine /\ ok
                   THEN [engines EXCEPT ![e].running = TRUE]
                   ELSE engines]

\* fixapp.Start on handle h; ok is whether the engine's Start succeeds.
\* Yields the error flag, whether the engine's Start was invoked, and the
\* handle and engine tables after the call.
fixappStart(h, ok) ==
  LET f == apps[h]
      e == EngineOf(f)
      starts == f.state # fixappstatestarted
  IN  [err |-> starts /\ (e = NoEngine \/ ~ok),
       engineStart |-> starts /\ e # NoEngine,
       apps |-> [apps EXCEPT ![h].state = fixappstatestarted,
                             ![h].refcount = f.refcount + 1],
       engines |-> IF starts /\ e # NoEngine /\ ok
                   THEN [engines EXCEPT ![e].running = TRUE]
                   ELSE engines]

\* an early return of fixapp.Stop that is off by one holder
StopOnlyDecrementsOffByOne(f) ==
  f.state = fixappstatestopped \/ f.refcount > 2

\* the early return of fixapp.Stop: only the refcount is decremented
StopOnlyDecrements(f) == f.state = fixappstatestopped \/ f.refcount > 1

\* fixapp.Stop on handle h.  Yields whether the engine's Stop was invoked
\* and the handle and engine tables after the call.
fixappStop(h) ==
  LET f == apps[h]
      e == EngineOf(f)
  IN  IF StopOnlyDecrements(f)
      THEN [engineStop |-> FALSE,
            apps |-> [apps EXCEPT ![h].refcount = f.refcount - 1],
            engines |-> engines]
      ELSE [engineStop |-> e # NoEngine,
            apps |-> [apps EXCEPT ![h].acceptor = NoEngine,
                                  ![h].initiator = NoEngine],
            engines |-> IF e # NoEngine
                        THEN [engines EXCEPT ![e].running = FALSE]
                        ELSE engines]

----------------------------------------------------------------------------
(* Histories: what was called, kept beside the program's state *)

\* per handle: the engine it was created with, the Start and Stop calls made
\* on it, those that invoked the engine's Start and Stop, and whether a
\* Start followed a Stop
NewHist(e) == [engine |-> e, starts |-> 0, stops |-> 0, engineStarts |-> 0,
               engineStops |-> 0, startAfterStop |-> FALSE]

HistAfterStart(h, r) ==
  [hist EXCEPT ![h].starts = @ + 1,
               ![h].engineStarts = @ + (IF r.engineStart THEN 1 ELSE 0),
               ![h].startAfterStop = @ \/ hist[h].stops > 0]

HistAfterStop(h, r) ==
  [hist EXCEPT ![h].stops = @ + 1,
               ![h].engineStops = @ + (IF r.engineStop THEN 1 ELSE 0)]

HistAfterGetOrCreate(r) ==
  IF Len(r.apps) > Len(apps)
  THEN Append(hist, NewHist(EngineOf(r.apps[Len(r.apps)])))
  ELSE hist

\* what the environment answers to one GetOrCreateFixApp: nothing fails, or
\* the first step that fails
Env(fails) == [parse |-> fails # "parse", log |-> fails # "log",
               engine |-> fails # "engine"]
Envs == {Env(x) : x \in {"none", "parse", "log", "engine"}}
\* the answers that can matter to a call naming configFile: none when the
\* file is missing or its checksum is registered already
EnvsFor(configFile) ==
  IF createChecksum(configFile).err
     \/ createChecksum(configFile).chk \in DOMAIN fixappstore
  THEN {Env("none")} ELSE Envs
\* roles, store kinds and log kinds that between them take every branch of
\* GetOrCreateFixApp, createMessageStoreFactory and createLogFactory
Kinds == {<<acceptorType, messageStoreMem, logFactoryScreen>>,
          <<initiatorType, messageStoreFile, logFactoryFile>>,
          <<"other", messageStoreMem, logFactoryScreen>>,
          <<acceptorType, "other", logFactoryScreen>>,
          <<initiatorType, messageStoreMem, "other">>}

----------------------------------------------------------------------------
(* RegistrySpec: the registry driven by direct, sequential calls of        *)
(* GetOrCreateFixApp with every combination of arguments, over files that  *)
(* are written and removed in between, and Start and Stop calls by the     *)
(* handles' holders (a holder stops what it started); no adapter           *)
(* goroutines.                                                             *)

\* no message returned
NoMsg == [quickfix_session_id |-> "", quickfix_event |-> "",
          payload |-> NilMessage, engine |-> NoEngine, session |-> "",
          kind |-> "", n |-> 0]

\* the goroutine that calls Connect and Close on an adapter: where it is
\* (pc), the handle GetOrCreateFixApp gave it (f), the channel its OnCreate
\* sends on (ch), what its last call was and returned (last, ret), and what
\* it has done so far: Connect calls (connects), constructor invocations
\* (built)
IdleCtl == [pc |-> "idle", f |-> NoApp, ch |-> NilChan, last |-> "none",
            ret |-> "none", connects |-> 0, built |-> 0]

\* the goroutine that calls Read on an adapter: where it is (pc), its copy
\* of q.eventChan (ch), its context (ctx), what its last Read returned (ret,
\* msg); and, as history, whether the Read was called after a Close had
\* returned with no Connect since (afterClose) and the events that were
\* pending on the channel when a Read last returned ctx.Err() (missed)
\* and the events its Reads have returned, in order (log)
IdleRd == [pc |-> "idle", ch |-> NilChan, ctx |-> "live", ret |-> "none",
           msg |-> NoMsg, afterClose |-> FALSE, missed |-> {}, log |-> <<>>]

\* the file processor before its first call
IdleProc == [calls |-> 0, op |-> "none", path |-> "", dest |-> "",
             content |-> <<>>, before |-> <<>>, err |-> FALSE,
             batch |-> <<>>, warned |-> FALSE]

InitAdapters ==
  /\ proc = IdleProc
  /\ eventChan = [a \in Adapters |-> NilChan]
  /\ chans = <<>>
  /\ mut = [a \in Adapters |-> "free"]
  /\ ctl = [a \in Adapters |-> IdleCtl]
  /\ rd = [a \in Adapters |-> IdleRd]
  /\ fixappstorelock = "free"
  /\ fault = "none"

InitRegistry ==
  /\ fixappstore = <<>>
  /\ apps = <<>>
  /\ engines = <<>>
  /\ hist = <<>>
  /\ returned = {}

DefaultCfg(p) == [appType |-> acceptorType, storeType |-> messageStoreMem,
                  logType |-> logFactoryScreen, config |-> p]

RegInit ==
  /\ files = [p \in Paths |-> [exists |-> FALSE, data |-> <<>>]]
  /\ cfg = [a \in Adapters |-> DefaultCfg("p1")]
  /\ InitRegistry
  /\ InitAdapters

\* the environment writes a configuration file
WriteFile(p, c) ==
  /\ files' = [files EXCEPT ![p] = [exists |-> TRUE, data |-> c]]
  /\ UNCHANGED <<regvars, adaptervars>>

\* the environment removes a configuration file
RemoveFile(p) ==
  /\ files[p].exists
  /\ files' = [files EXCEPT ![p] = [exists |-> FALSE, data |-> <<>>]]
  /\ UNCHANGED <<regvars, adaptervars>>

CallGetOrCreateFixApp(appType, msgStore, logType, app, configFile, env) ==
  LET r == GetOrCreateFixApp(appType, msgStore, logType, app, configFile, env) IN
  /\ fixappstore' = r.store
  /\ apps' = r.apps
  /\ engines' = r.engines
  /\ hist' = HistAfterGetOrCreate(r)
  /\ returned' = IF r.err THEN returned
                 ELSE returned \cup {<<files[configFile].data, r.f, configFile>>}
  /\ UNCHANGED <<files, adaptervars>>

CallStart(h, ok, max) ==
  LET r == fixappStart(h, ok) IN
  /\ hist[h].starts < max
  /\ apps' = r.apps
  /\ engines' = r.engines
  /\ hist' = HistAfterStart(h, r)
  /\ UNCHANGED <<files, fixappstore, returned, adaptervars>>

CallStop(h, max) ==
  LET r == fixappStop(h) IN
  /\ hist[h].stops < max
  /\ apps' = r.apps
  /\ engines' = r.engines
  /\ hist' = HistAfterStop(h, r)
  /\ UNCHANGED <<files, fixappstore, returned, adaptervars>>

RegNext ==
  \/ \E p \in Paths, c \in Contents : WriteFile(p, c)
  \/ \E p \in Paths : RemoveFile(p)
  \/ \E k \in Kinds, p \in Paths :
       \E env \in EnvsFor(p) :
          CallGetOrCreateFixApp(k[1], k[2], k[3], "q1", p, env)
  \/ \E h \in DOMAIN apps : CallStart(h, TRUE, RegStarts)
  \/ \E h \in DOMAIN apps : CallStop(h, hist[h].starts)

RegistrySpec == RegInit /\ [][RegNext]_vars

----------------------------------------------------------------------------
(* HandleSpec: handles created from two fixed configuration files and      *)
(* driven by direct, sequential Start and Stop calls.                      *)

HandleInit ==
  /\ files = [p \in Paths |->
                [exists |-> TRUE, data |-> IF p = "p1" THEN <<0>> ELSE <<1>>]]
  /\ cfg = [a \in Adapters |-> DefaultCfg("p1")]
  /\ InitRegistry
  /\ InitAdapters

HandleNext ==
  \/ \E t \in AppTypes, p \in Paths, env \in {Env("none"), Env("engine")} :
          CallGetOrCreateFixApp(t, messageStoreMem, logFactoryScreen, "q1", p, env)
  \/ \E h \in DOMAIN apps, ok \in BOOLEAN : CallStart(h, ok, MaxStarts)
  \/ \E h \in DOMAIN apps : CallStop(h, MaxStarts + 1)

HandleSpec == HandleInit /\ [][HandleNext]_vars

----------------------------------------------------------------------------
(* input.go *)

Alive == fault = "none"

\* a NewQuickfixEvent that attaches the message it was handed
NewQuickfixEventShares(id, t, message) ==
  [sessionId |-> ZeroSessionID, eventType |-> t, message |-> message,
   shared |-> message # NilMessage]

\* NewQuickfixEvent: the event built for a callback of kind t on session id
\* with message (the id is not stored: the event keeps the zero SessionID);
\* a message that is not nil is copied into a new one (CopyInto)
NewQuickfixEvent(id, t, message) ==
  [sessionId |-> ZeroSessionID, eventType |-> t, message |-> message,
   shared |-> FALSE]

\* the message an event of worker w holds when it is read
MessageOf(w) == IF w.shared THEN w.buf ELSE w.message

\* the engine workers blocked in a send on channel c
SendingWorkers(c) ==
  {w \in (DOMAIN engines) \X Sessions :
     /\ engines[w[1]].cb[w[2]].pc = "sending"
     /\ engines[w[1]].cb[w[2]].ch = c}

\* the Connect/Close goroutines blocked in OnCreate's send on channel c
SendingCallers(c) ==
  {a \in Adapters : ctl[a].pc \in {"connect_oncreate", "close_oncreate"}
                     /\ ctl[a].ch = c}

\* a close that does nothing on a channel that is already closed
ClosePanicOnce(c) ==
  IF c = NilChan THEN "close of nil channel"
  ELSE IF chans[c] = "closed" THEN ""
  ELSE IF SendingWorkers(c) # {} \/ SendingCallers(c) # {}
       THEN "send on closed channel"
  ELSE ""

\* close(c): "" when it succeeds, else the panic
ClosePanic(c) ==
  IF c = NilChan THEN "close of nil channel"
  ELSE IF chans[c] = "closed" THEN "close of closed channel"
  ELSE IF SendingWorkers(c) # {} \/ SendingCallers(c) # {}
       THEN "send on closed channel"
  ELSE ""

\* The call of GetOrCreateFixApp that Connect and Close make, by the
\* goroutine of adapter a at pc from.  sync: the constructor invokes
\* OnCreate on this goroutine before it returns.  The call ends in an error
\* (the method returns it), in the handle (the goroutine goes on at pc to),
\* or inside OnCreate's send, holding fixappstorelock.
CallerGetOrCreate(a, from, to, oncreate, env, sync, makeChan) ==
  LET q == cfg[a]
      c == createChecksum(q.config)
      r == GetOrCreateLocked(q.appType, q.storeType, q.logType, a, q.config,
                             c.chk, env)
      built == IF r.constructed THEN 1 ELSE 0
  IN
  /\ Alive
  /\ ctl[a].pc = from
  /\ IF c.err
     THEN /\ ctl' = [ctl EXCEPT ![a].pc = "idle", ![a].ret = "err"]
          /\ mut' = [mut EXCEPT ![a] = "free"]
          /\ UNCHANGED <<regvars, eventChan, chans, fixappstorelock, fault>>
     ELSE
       /\ fixappstorelock = "free"
       /\ IF r.constructed /\ sync
          THEN \* OnCreate runs inside the constructor
               IF eventChan[a] # NilChan /\ chans[eventChan[a]] = "closed"
               THEN /\ fault' = "send on closed channel"
                    /\ UNCHANGED <<regvars, eventChan, chans, mut, ctl,
                                   fixappstorelock>>
               ELSE /\ ctl' = [ctl EXCEPT ![a].pc = oncreate,
                                          ![a].ch = eventChan[a],
                                          ![a].built = @ + built]
                    /\ fixappstorelock' = a
                    /\ UNCHANGED <<regvars, eventChan, chans, mut, fault>>
          ELSE IF r.err
          THEN /\ ctl' = [ctl EXCEPT ![a].pc = "idle", ![a].ret = "err",
                                     ![a].built = @ + built]
               /\ mut' = [mut EXCEPT ![a] = "free"]
               /\ UNCHANGED <<regvars, eventChan, chans, fixappstorelock, fault>>
          ELSE /\ fixappstore' = r.store
               /\ apps' = r.apps
               /\ engines' = r.engines
               /\ hist' = HistAfterGetOrCreate(r)
               /\ returned' = returned \cup {<<files[q.config].data, r.f, q.config>>}
               /\ ctl' = [ctl EXCEPT ![a].pc = to, ![a].f = r.f,
                                     ![a].built = @ + built]
               /\ IF makeChan
                  THEN /\ chans' = Append(chans, "open")
                       /\ eventChan' = [eventChan EXCEPT ![a] = Len(chans) + 1]
                  ELSE UNCHANGED <<eventChan, chans>>
               /\ UNCHANGED <<mut, fixappstorelock, fault>>
  /\ UNCHANGED <<files, cfg, proc, rd>>

\* Connect: q.mut.Lock()
ConnectEnter(a) ==
  /\ Alive
  /\ ctl[a].pc = "idle"
  /\ ctl[a].connects < MaxConnects
  /\ mut[a] = "free"
  /\ mut' = [mut EXCEPT ![a] = "ctl"]
  /\ ctl' = [ctl EXCEPT ![a].pc = "connect_get", ![a].last = "connect",
                        ![a].ret = "none", ![a].connects = @ + 1]
  /\ UNCHANGED <<files, regvars, cfg, proc, eventChan, chans, rd, fixappstorelock,
                 fault>>

\* Connect: GetOrCreateFixApp, then the channel is made
ConnectGetOrCreate(a, env, sync) ==
  CallerGetOrCreate(a, "connect_get", "connect_start", "connect_oncreate",
                    env, sync, TRUE)

\* a Connect that returns the error of fixapp.Start()
ConnectStartReturnsError(a, ok) ==
  LET r == fixappStart(ctl[a].f, ok) IN
  /\ Alive
  /\ ctl[a].pc = "connect_start"
  /\ fixappstorelock = "free"
  /\ apps' = r.apps
  /\ engines' = r.engines
  /\ hist' = HistAfterStart(ctl[a].f, r)
  /\ ctl' = [ctl EXCEPT ![a].pc = "idle",
                        ![a].ret = IF r.err THEN "err" ELSE "ok"]
  /\ mut' = [mut EXCEPT ![a] = "free"]
  /\ UNCHANGED <<files, fixappstore, returned, cfg, proc, eventChan, chans, rd,
                 fixappstorelock, fault>>

\* Connect: fixapp.Start() and the return (of GetOrCreateFixApp's nil error)
ConnectStart(a, ok) ==
  LET r == fixappStart(ctl[a].f, ok) IN
  /\ Alive
  /\ ctl[a].pc = "connect_start"
  /\ fixappstorelock = "free"
  /\ apps' = r.apps
  /\ engines' = r.engines
  /\ hist' = HistAfterStart(ctl[a].f, r)
  /\ ctl' = [ctl EXCEPT ![a].pc = "idle", ![a].ret = "ok"]
  /\ mut' = [mut EXCEPT ![a] = "free"]
  /\ UNCHANGED <<files, fixappstore, returned, cfg, proc, eventChan, chans, rd,
                 fixappstorelock, fault>>

\* Close: q.mut.Lock() and close(q.eventChan)
CloseEnter(a) ==
  /\ Alive
  /\ ctl[a].pc = "idle"
  /\ mut[a] = "free"
  /\ IF ClosePanic(eventChan[a]) # ""
     THEN /\ fault' = ClosePanic(eventChan[a])
          /\ chans' = IF eventChan[a] # NilChan
                      THEN [chans EXCEPT ![eventChan[a]] = "closed"]
                      ELSE chans
          /\ ctl' = [ctl EXCEPT ![a].last = "close", ![a].ret = "none"]
          /\ UNCHANGED mut
     ELSE /\ chans' = [chans EXCEPT ![eventChan[a]] = "closed"]
          /\ mut' = [mut EXCEPT ![a] = "ctl"]
          /\ ctl' = [ctl EXCEPT ![a].pc = "close_get", ![a].last = "close",
                                ![a].ret = "none"]
          /\ UNCHANGED fault
  /\ UNCHANGED <<files, regvars, cfg, proc, eventChan, rd, fixappstorelock>>

\* Close: GetOrCreateFixApp
CloseGetOrCreate(a, env, sync) ==
  CallerGetOrCreate(a, "close_get", "close_stop", "close_oncreate",
                    env, sync, FALSE)

\* the callbacks of engine e that are in flight
InFlight(e) == {s \in Sessions : engines[e].cb[s].pc # "idle"}

\* whether fixapp.Stop on handle h has an engine to stop and wait for
StopWaits(h) ==
  /\ ~StopOnlyDecrements(apps[h])
  /\ EngineOf(apps[h]) # NoEngine
  /\ InFlight(EngineOf(apps[h])) # {}

\* Close: fixapp.Stop() takes fixappstorelock and, unless it has an engine
\* to stop whose callback is in flight, runs to its end and Close returns.
\* The engine's Stop returns once none of its callbacks is in flight; until
\* then Close stays in it, holding fixappstorelock and q.mut.
CloseStop(a) ==
  LET h == ctl[a].f
      r == fixappStop(h)
  IN
  /\ Alive
  /\ ctl[a].pc = "close_stop"
  /\ fixappstorelock = "free"
  /\ IF StopWaits(h)
     THEN /\ fixappstorelock' = a
          /\ ctl' = [ctl EXCEPT ![a].pc = "close_stopping"]
          /\ UNCHANGED <<apps, engines, hist, mut>>
     ELSE /\ apps' = r.apps
          /\ engines' = r.engines
          /\ hist' = HistAfterStop(h, r)
          /\ ctl' = [ctl EXCEPT ![a].pc = "idle", ![a].ret = "ok"]
          /\ mut' = [mut EXCEPT ![a] = "free"]
          /\ UNCHANGED fixappstorelock
  /\ UNCHANGED <<files, fixappstore, returned, cfg, proc, eventChan, chans, rd, fault>>

\* Read is called with a context that is live or already cancelled
ReadCall(a, c) ==
  /\ Alive
  /\ rd[a].pc = "idle"
  /\ rd' = [rd EXCEPT ![a] =
               [pc |-> "lock", ch |-> NilChan, ctx |-> c, ret |-> "none",
                msg |-> NoMsg,
                afterClose |-> /\ ctl[a].pc = "idle"
                               /\ ctl[a].last = "close"
                               /\ ctl[a].ret = "ok",
                missed |-> rd[a].missed, log |-> rd[a].log]]
  /\ UNCHANGED <<files, regvars, cfg, proc, eventChan, chans, mut, ctl,
                 fixappstorelock, fault>>

\* the context of a Read in progress is cancelled
Cancel(a) ==
  /\ Alive
  /\ rd[a].pc # "idle"
  /\ rd[a].ctx = "live"
  /\ rd' = [rd EXCEPT ![a].ctx = "canceled"]
  /\ UNCHANGED <<files, regvars, cfg, proc, eventChan, chans, mut, ctl,
                 fixappstorelock, fault>>

\* a Read that does not test its copy of q.eventChan for nil
ReadSnapshotNoNilCheck(a) ==
  /\ Alive
  /\ rd[a].pc = "lock"
  /\ mut[a] = "free"
  /\ rd' = [rd EXCEPT ![a].pc = "select", ![a].ch = eventChan[a]]
  /\ UNCHANGED <<files, regvars, cfg, proc, eventChan, chans, mut, ctl,
                 fixappstorelock, fault>>

\* Read: under q.mut, eventChan := q.eventChan; nil returns ErrNotConnected
ReadSnapshot(a) ==
  /\ Alive
  /\ rd[a].pc = "lock"
  /\ mut[a] = "free"
  /\ rd' = IF eventChan[a] = NilChan
           THEN [rd EXCEPT ![a].pc = "idle", ![a].ret = ErrNotConnected]
           ELSE [rd EXCEPT ![a].pc = "select", ![a].ch = eventChan[a]]
  /\ UNCHANGED <<files, regvars, cfg, proc, eventChan, chans, mut, ctl,
                 fixappstorelock, fault>>

\* a Read that returns the pending event and leaves it pending
ReadReceivePeeks(a, e, s, panics) ==
  LET w == engines[e].cb[s] IN
  /\ Alive
  /\ rd[a].pc = "select"
  /\ <<e, s>> \in SendingWorkers(rd[a].ch)
  /\ ~panics
  /\ rd' = [rd EXCEPT ![a].pc = "idle", ![a].ret = "message",
                       ![a].msg = [quickfix_session_id |-> w.sessionId,
                                   quickfix_event |-> w.eventType,
                                   payload |-> MessageOf(w),
                                   engine |-> e, session |-> s,
                                   kind |-> w.kind, n |-> w.n],
                       ![a].log = Append(@, <<e, s, w.n>>)]
  /\ UNCHANGED <<files, regvars, cfg, proc, eventChan, chans, mut, ctl,
                 fixappstorelock, fault>>

\* Read: the select receives the event of a callback blocked in its send on
\* the channel, and the callback returns.  The message's body is rendered
\* from msg.message, which is nil for create, logon and logout: whether the
\* rendering of a nil message panics is the library's (panics).
ReadReceive(a, e, s, panics) ==
  LET w == engines[e].cb[s] IN
  /\ Alive
  /\ rd[a].pc = "select"
  /\ <<e, s>> \in SendingWorkers(rd[a].ch)
  /\ IF MessageOf(w) = NilMessage /\ panics
     THEN /\ fault' = "nil message"
          /\ UNCHANGED <<rd, engines>>
     ELSE /\ rd' = [rd EXCEPT ![a].pc = "idle", ![a].ret = "message",
                              ![a].msg = [quickfix_session_id |-> w.sessionId,
                                          quickfix_event |-> w.eventType,
                                          payload |-> MessageOf(w),
                                          engine |-> e, session |-> s,
                                          kind |-> w.kind, n |-> w.n],
                              ![a].log = Append(@, <<e, s, w.n>>)]
          /\ engines' = [engines EXCEPT ![e].cb[s].pc = "idle"]
          /\ UNCHANGED fault
  /\ UNCHANGED <<files, fixappstore, apps, hist, returned, cfg, proc, eventChan,
                 chans, mut, ctl, fixappstorelock>>

\* a Read that does not test the receive's open flag: the zero event of a
\* closed channel is returned as a message
ReadClosedAsMessage(a) ==
  /\ Alive
  /\ rd[a].pc = "select"
  /\ chans[rd[a].ch] = "closed"
  /\ rd' = [rd EXCEPT ![a].pc = "idle", ![a].ret = "message"]
  /\ UNCHANGED <<files, regvars, cfg, proc, eventChan, chans, mut, ctl,
                 fixappstorelock, fault>>

\* Read: the select finds the channel closed
ReadClosed(a) ==
  /\ Alive
  /\ rd[a].pc = "select"
  /\ chans[rd[a].ch] = "closed"
  /\ rd' = [rd EXCEPT ![a].pc = "closed"]
  /\ UNCHANGED <<files, regvars, cfg, proc, eventChan, chans, mut, ctl,
                 fixappstorelock, fault>>

\* Read: under q.mut, q.eventChan = nil; returns ErrEndOfInput
ReadEndOfInput(a) ==
  /\ Alive
  /\ rd[a].pc = "closed"
  /\ mut[a] = "free"
  /\ eventChan' = [eventChan EXCEPT ![a] = NilChan]
  /\ rd' = [rd EXCEPT ![a].pc = "idle", ![a].ret = ErrEndOfInput]
  /\ UNCHANGED <<files, regvars, cfg, proc, chans, mut, ctl, fixappstorelock, fault>>

\* a Read that receives the pending event and then returns ctx.Err()
ReadCanceledConsumes(a) ==
  /\ Alive
  /\ rd[a].pc = "select"
  /\ rd[a].ctx = "canceled"
  /\ rd' = [rd EXCEPT ![a].pc = "idle", ![a].ret = ErrCanceled,
                       ![a].missed = {<<w[1], w[2], engines[w[1]].cb[w[2]].n>> :
                                        w \in SendingWorkers(rd[a].ch)}]
  /\ IF SendingWorkers(rd[a].ch) = {}
     THEN UNCHANGED engines
     ELSE \E w \in SendingWorkers(rd[a].ch) :
            engines' = [engines EXCEPT ![w[1]].cb[w[2]].pc = "idle"]
  /\ UNCHANGED <<files, fixappstore, apps, hist, returned, cfg, proc, eventChan,
                 chans, mut, ctl, fixappstorelock, fault>>

\* Read: the select takes ctx.Done() and returns ctx.Err()
ReadCanceled(a) ==
  /\ Alive
  /\ rd[a].pc = "select"
  /\ rd[a].ctx = "canceled"
  /\ rd' = [rd EXCEPT ![a].pc = "idle", ![a].ret = ErrCanceled,
                       ![a].missed = {<<w[1], w[2], engines[w[1]].cb[w[2]].n>> :
                                        w \in SendingWorkers(rd[a].ch)}]
  /\ UNCHANGED <<files, regvars, cfg, proc, eventChan, chans, mut, ctl,
                 fixappstorelock, fault>>

\* a callback whose send completes at once, as on a buffered channel
CallbackBuffered(e, s, t, m, dict) ==
  LET w == engines[e].cb[s] IN
  /\ Alive
  /\ engines[e].running
  /\ w.pc = "idle"
  /\ w.n < MaxEvents
  /\ m = NilMessage <=> t \notin MessageEvents
  /\ ~dict
  /\ engines' = [engines EXCEPT ![e].cb[s].n = w.n + 1, ![e].cb[s].kind = t]
  /\ UNCHANGED <<files, fixappstore, apps, hist, returned, cfg, proc, eventChan,
                 chans, mut, ctl, rd, fixappstorelock, fault>>

\* a callback that sends on the channel of an adapter holding the engine's
\* handle, whichever adapter built the engine
CallbackToHolder(e, s, t, m, dict) ==
  LET holders == {a \in Adapters : /\ ctl[a].f # NoApp
                                    /\ EngineOf(apps[ctl[a].f]) = e
                                    /\ eventChan[a] # NilChan}
      q == IF holders = {} THEN engines[e].app
           ELSE CHOOSE a \in holders :
                  a # engines[e].app \/ holders = {engines[e].app}
      w == engines[e].cb[s]
      ev == NewQuickfixEvent(s, t, m)
  IN
  /\ Alive
  /\ engines[e].running
  /\ w.pc = "idle"
  /\ w.n < MaxEvents
  /\ m = NilMessage <=> t \notin MessageEvents
  /\ dict => t = createEvent
  /\ IF dict
     THEN /\ fault' = "assignment to entry in nil map"
          /\ UNCHANGED engines
     ELSE IF eventChan[q] # NilChan /\ chans[eventChan[q]] = "closed"
     THEN /\ fault' = "send on closed channel"
          /\ engines' = [engines EXCEPT ![e].cb[s] =
                            [pc |-> "sending", ch |-> eventChan[q], n |-> w.n + 1,
                             kind |-> t, sessionId |-> ev.sessionId,
                             eventType |-> ev.eventType,
                             message |-> ev.message, shared |-> ev.shared,
                             arg |-> m, buf |-> m]]
     ELSE /\ engines' = [engines EXCEPT ![e].cb[s] =
                            [pc |-> "sending", ch |-> eventChan[q], n |-> w.n + 1,
                             kind |-> t, sessionId |-> ev.sessionId,
                             eventType |-> ev.eventType,
                             message |-> ev.message, shared |-> ev.shared,
                             arg |-> m, buf |-> m]]
          /\ UNCHANGED fault
  /\ UNCHANGED <<files, fixappstore, apps, hist, returned, cfg, proc, eventChan,
                 chans, mut, ctl, rd, fixappstorelock>>

\* A worker of the running engine e invokes the callback of kind t for
\* session s with message m on the engine's Application: the event is built
\* and the send on q.eventChan begins.  OnCreate first caches the session's
\* dictionaries when the settings name one that parses (dict).
Callback(e, s, t, m, dict) ==
  LET q == engines[e].app
      w == engines[e].cb[s]
      ev == NewQuickfixEvent(s, t, m)
  IN
  /\ Alive
  /\ engines[e].running
  /\ w.pc = "idle"
  /\ w.n < MaxEvents
  /\ m = NilMessage <=> t \notin MessageEvents
  /\ dict => t = createEvent
  /\ IF dict
     THEN /\ fault' = "assignment to entry in nil map"
          /\ UNCHANGED engines
     ELSE IF eventChan[q] # NilChan /\ chans[eventChan[q]] = "closed"
     THEN /\ fault' = "send on closed channel"
          /\ engines' = [engines EXCEPT ![e].cb[s] =
                            [pc |-> "sending", ch |-> eventChan[q], n |-> w.n + 1,
                             kind |-> t, sessionId |-> ev.sessionId,
                             eventType |-> ev.eventType,
                             message |-> ev.message, shared |-> ev.shared,
                             arg |-> m, buf |-> m]]
     ELSE /\ engines' = [engines EXCEPT ![e].cb[s] =
                            [pc |-> "sending", ch |-> eventChan[q], n |-> w.n + 1,
                             kind |-> t, sessionId |-> ev.sessionId,
                             eventType |-> ev.eventType,
                             message |-> ev.message, shared |-> ev.shared,
                             arg |-> m, buf |-> m]]
          /\ UNCHANGED fault
  /\ UNCHANGED <<files, fixappstore, apps, hist, returned, cfg, proc, eventChan,
                 chans, mut, ctl, rd, fixappstorelock>>

\* The engine reuses the buffer of the message it handed to the callback
\* of session s, after the callback has built its event and before a Read
\* has returned it (the adapter holds nothing of the message afterwards).
MutateBuffer(e, s) ==
  LET w == engines[e].cb[s] IN
  /\ Alive
  /\ w.pc = "sending"
  /\ w.buf \in Messages
  /\ engines' = [engines EXCEPT ![e].cb[s].buf = Reused]
  /\ UNCHANGED <<files, fixappstore, apps, hist, returned, cfg, proc, eventChan,
                 chans, mut, ctl, rd, fixappstorelock, fault>>

----------------------------------------------------------------------------
(* Spec: one adapter, q1, with its Connect/Close goroutine, its Read       *)
(* goroutine and the workers of the engine it starts.  Its configuration   *)
(* file does not change.                                                   *)

AdapterInit(types, contents) ==
  /\ \E c \in contents :
       files = [p \in Paths |->
                  [exists |-> TRUE, data |-> IF p = "p1" THEN <<0>> ELSE c]]
  /\ \E t \in types :
       cfg = [a \in Adapters |->
                [appType |-> t[a], storeType |-> messageStoreMem,
                 logType |-> logFactoryScreen,
                 config |-> IF a = "q1" THEN "p1" ELSE "p2"]]
  /\ InitRegistry
  /\ InitAdapters

Init ==
  AdapterInit({[q1 |-> t, q2 |-> acceptorType] : t \in AppTypes}, {<<1>>})

\* the steps of a Connect or Close of adapter a that has taken q.mut
ControlSteps(a) ==
  \/ \E env \in {Env("none"), Env("engine")}, sync \in BOOLEAN :
       ConnectGetOrCreate(a, env, sync)
  \/ \E ok \in BOOLEAN : ConnectStart(a, ok)
  \/ \E env \in {Env("none"), Env("engine")}, sync \in BOOLEAN :
       CloseGetOrCreate(a, env, sync)
  \/ CloseStop(a)

\* what the goroutine calling Connect and Close on adapter a may do
ControlNext(a) ==
  \/ ConnectEnter(a)
  \/ CloseEnter(a)
  \/ ControlSteps(a)

\* the steps of a Read of adapter a that has been called
ReadSteps(a) ==
  \/ ReadSnapshot(a)
  \/ \E e \in DOMAIN engines, s \in Sessions, p \in BOOLEAN :
       ReadReceive(a, e, s, p)
  \/ ReadClosed(a)
  \/ ReadEndOfInput(a)
  \/ ReadCanceled(a)

\* what the goroutine calling Read on adapter a, and whoever cancels its
\* context, may do
ReadNext(a) ==
  \/ \E c \in {"live", "canceled"} : ReadCall(a, c)
  \/ Cancel(a)
  \/ ReadSteps(a)

\* what the workers of the given sessions may do: the callbacks of the
\* given kinds
WorkerNext(kinds, sessions) ==
  \E e \in DOMAIN engines, s \in sessions, t \in kinds,
     m \in Messages \cup {NilMessage}, d \in BOOLEAN :
       Callback(e, s, t, m, d)

\* what the engines' workers may do when the configuration declares one
\* session
EngineNext(kinds) == WorkerNext(kinds, OneSession)

Next ==
  \/ ControlNext("q1")
  \/ ReadNext("q1")
  \/ EngineNext(EventTypes)

Spec == Init /\ [][Next]_vars

\* FairSpec: the adapter of Spec with an engine that logs sessions on and
\* hands over application messages, in which a goroutine that can take the
\* next step of the Connect, Close or Read it is in does take it (the Go
\* scheduler runs every runnable goroutine); when the methods are called,
\* when a context is cancelled and when the engine calls back is left open.
FairNext ==
  \/ ControlNext("q1")
  \/ ReadNext("q1")
  \/ EngineNext({logonEvent, fromAppEvent})

FairSpec ==
  /\ Init /\ [][FairNext]_vars
  /\ WF_vars(ControlSteps("q1")) /\ WF_vars(ReadSteps("q1"))

----------------------------------------------------------------------------
(* PreCancelSpec: the adapter of FairSpec (no fairness) whose Reads are    *)
(* called with a context that is live or already cancelled and that is not *)
(* cancelled afterwards.                                                   *)

PreCancelNext ==
  \/ ControlNext("q1")
  \/ \E c \in {"live", "canceled"} : ReadCall("q1", c)
  \/ ReadSteps("q1")
  \/ EngineNext({logonEvent, fromAppEvent})

PreCancelSpec == Init /\ [][PreCancelNext]_vars

----------------------------------------------------------------------------
(* DeliverySpec: one adapter, q1, whose configuration declares an acceptor *)
(* with two sessions: its Connects, its Reads, which may be cancelled, and *)
(* the two workers of the engine, which hand over application messages.    *)
(* Close is not called.                                                    *)

DeliveryInit ==
  AdapterInit({[a \in Adapters |-> acceptorType]}, {<<1>>})

DeliveryNext ==
  \/ ConnectEnter("q1")
  \/ \E env \in {Env("none"), Env("engine")}, sync \in BOOLEAN :
       ConnectGetOrCreate("q1", env, sync)
  \/ \E ok \in BOOLEAN : ConnectStart("q1", ok)
  \/ \E c \in {"live", "canceled"} : ReadCall("q1", c)
  \/ Cancel("q1")
  \/ ReadSnapshot("q1")
  \/ \E e \in DOMAIN engines, s \in Sessions, p \in BOOLEAN :
       ReadReceive("q1", e, s, p)
  \/ ReadCanceled("q1")
  \/ WorkerNext({fromAppEvent}, Sessions)

DeliverySpec == DeliveryInit /\ [][DeliveryNext]_vars

----------------------------------------------------------------------------
(* CopySpec: the adapter of FairSpec (no fairness) with an engine that     *)
(* reuses its message buffers.                                             *)

CopyNext ==
  \/ FairNext
  \/ \E e \in DOMAIN engines, s \in OneSession : MutateBuffer(e, s)

CopySpec == Init /\ [][CopyNext]_vars

----------------------------------------------------------------------------
(* ShareSpec: two adapters whose configuration files hold the same bytes,  *)
(* so that they share one handle: their Connects, their Reads (not         *)
(* cancelled) and the worker of the engine, which hands over application   *)
(* messages.  Close is not called.                                         *)

ShareInit ==
  AdapterInit({[a \in Adapters |-> acceptorType]}, {<<0>>})

ShareNext ==
  \/ \E a \in Adapters : ConnectEnter(a)
  \/ \E a \in Adapters, sync \in BOOLEAN :
       ConnectGetOrCreate(a, Env("none"), sync)
  \/ \E a \in Adapters : ConnectStart(a, TRUE)
  \/ \E a \in Adapters : ReadCall(a, "live")
  \/ \E a \in Adapters : ReadSnapshot(a)
  \/ \E a \in Adapters, e \in DOMAIN engines, s \in Sessions :
       ReadReceive(a, e, s, FALSE)
  \/ WorkerNext({fromAppEvent}, OneSession)

ShareSpec == ShareInit /\ [][ShareNext]_vars

----------------------------------------------------------------------------
(* ConnectSpec: two adapters whose configuration files hold the same bytes *)
(* or different ones, each with its Connect/Close goroutine, and the       *)
(* workers of the engines they start, which create sessions and log them   *)
(* on; both adapters are configured with the same role, and Read is not    *)
(* called.                                                                 *)

ConnectInit ==
  AdapterInit({[a \in Adapters |-> t] : t \in AppTypes}, Contents)

ConnectNext ==
  \/ \E a \in Adapters : ControlNext(a)
  \/ EngineNext({createEvent, logonEvent})

ConnectSpec == ConnectInit /\ [][ConnectNext]_vars

----------------------------------------------------------------------------
(* ErrorSpec: one adapter, q1, configured with any of the roles, store     *)
(* kinds and log kinds, whose Connect and Close run while its              *)
(* configuration file is written, rewritten and removed, and while any     *)
(* step of GetOrCreateFixApp may fail.                                     *)

ErrorInit ==
  /\ \E x \in BOOLEAN :
       files = [p \in Paths |->
                  [exists |-> x \/ p = "p2",
                   data |-> IF p = "p1" /\ x THEN <<0>>
                            ELSE IF p = "p2" THEN <<1>> ELSE <<>>]]
  /\ \E k \in Kinds :
       cfg = [a \in Adapters |->
                IF a = "q1"
                THEN [appType |-> k[1], storeType |-> k[2], logType |-> k[3],
                      config |-> "p1"]
                ELSE DefaultCfg("p2")]
  /\ InitRegistry
  /\ InitAdapters

ErrorNext ==
  \/ \E c \in Contents : WriteFile("p1", c)
  \/ RemoveFile("p1")
  \/ ConnectEnter("q1")
  \/ \E env \in Envs, sync \in BOOLEAN : ConnectGetOrCreate("q1", env, sync)
  \/ \E ok \in BOOLEAN : ConnectStart("q1", ok)
  \/ CloseEnter("q1")
  \/ \E env \in Envs, sync \in BOOLEAN : CloseGetOrCreate("q1", env, sync)
  \/ CloseStop("q1")

ErrorSpec == ErrorInit /\ [][ErrorNext]_vars

----------------------------------------------------------------------------
(* internal/impl/io/processor_file.go: the write and move operations of    *)
(* the file processor.  The file system is the variable files, here over   *)
(* FilePaths; directories are not modelled (MkdirAll either fails or       *)
(* changes no file), and p.nm.FS() is the file system os.Rename acts on.   *)
(* A call is one step: nothing else touches the files while it runs.       *)

\* tempFile := path + ".tmp"
Tmp(p) == p \o ".tmp"

\* the paths a call may name as its target, and every path of the model
Targets == {"a", "b"}
FilePaths == Targets \cup {Tmp(p) : p \in Targets}

NoFile == [exists |-> FALSE, data |-> <<>>]
FileOf(c) == [exists |-> TRUE, data |-> c]

\* the bytes of messages and of files, and the bytes a stale temporary file
\* holds
FileContents == {<<0>>, <<1, 0>>}
StaleBytes == <<7>>

\* the message a move is called with: only its paths are read
MoveMessages == {<<0>>}

\* FS().Remove(p): removes an existing file unless the removal fails
FSRemove(fs, p, ok) == IF ok /\ fs[p].exists THEN [fs EXCEPT ![p] = NoFile]
                       ELSE fs

\* whether FS().Remove(p) returns an error
FSRemoveFails(fs, p, ok) == ~(ok /\ fs[p].exists)

\* os.Rename(from, to): to takes from's file, from is gone
OsRename(fs, from, to) == [fs EXCEPT ![to] = fs[from], ![from] = NoFile]

\* the steps of a write that may fail, "none" for a write that succeeds
WriteFails == {"none", "path", "bytes", "mkdir", "open", "writer", "write",
               "close", "rename"}

\* the steps of a move that may fail
MoveFails == {"none", "path", "destpath", "mkdir", "opensrc", "read",
              "open", "writer", "write", "close", "rename"}

Failed(fs) == [files |-> fs, err |-> TRUE, batch |-> <<>>, warned |-> FALSE]

\* the temporary file written through rename (processor_file.go:265-292 and
\* 363-402): fail is the step that fails, n the bytes a failing Write or
\* Close left in the file, rm whether removing the temporary file works
WriteTemp(fs, tempFile, content, fail, n, rm) ==
  LET opened == [fs EXCEPT ![tempFile] = FileOf(<<>>)]
      partial == [fs EXCEPT ![tempFile] = FileOf(SubSeq(content, 1, n))]
      written == [fs EXCEPT ![tempFile] = FileOf(content)]
  IN CASE fail = "open" -> [ok |-> FALSE, files |-> fs]
       [] fail = "writer" ->
            [ok |-> FALSE, files |-> FSRemove(opened, tempFile, rm)]
       [] fail \in {"write", "close"} ->
            [ok |-> FALSE, files |-> FSRemove(partial, tempFile, rm)]
       [] fail = "rename" ->
            [ok |-> FALSE, files |-> FSRemove(written, tempFile, rm)]
       [] OTHER -> [ok |-> TRUE, files |-> written]

\* a variant of processWrite that copies the temporary file to the path
\* and leaves it behind
processWriteCopies(fs, path, content, fail, n, rm) ==
  LET tempFile == Tmp(path)
      t == WriteTemp(fs, tempFile, content, fail, n, rm)
  IN IF fail \in {"path", "bytes", "mkdir"} THEN Failed(fs)
     ELSE IF ~t.ok THEN Failed(t.files)
     ELSE [files |-> [t.files EXCEPT ![path] = t.files[tempFile]],
           err |-> FALSE, batch |-> <<content>>, warned |-> FALSE]

\* processWrite: the files, the error and the batch it returns
processWrite(fs, path, content, fail, n, rm) ==
  LET tempFile == Tmp(path)
      t == WriteTemp(fs, tempFile, content, fail, n, rm)
  IN IF fail \in {"path", "bytes", "mkdir"} THEN Failed(fs)
     ELSE IF ~t.ok THEN Failed(t.files)
     ELSE [files |-> OsRename(t.files, tempFile, path),
           err |-> FALSE, batch |-> <<content>>, warned |-> FALSE]

\* a variant of atomicCopyAndDelete that removes the source first and then
\* copies the temporary file to the destination
atomicCopyAndDeleteCopies(fs, srcPath, destPath, msg, fail, n, rm, rmsrc) ==
  LET tempFile == Tmp(destPath)
      content == fs[srcPath].data
      t == WriteTemp(fs, tempFile, content, fail, n, rm)
  IN IF fail = "mkdir" \/ fail = "opensrc" \/ ~fs[srcPath].exists
        \/ fail = "read"
     THEN Failed(fs)
     ELSE IF ~t.ok THEN Failed(t.files)
     ELSE LET copied == [t.files EXCEPT ![destPath] = t.files[tempFile]]
          IN [files |-> FSRemove(copied, srcPath, rmsrc),
              err |-> FALSE, batch |-> <<msg>>,
              warned |-> FSRemoveFails(copied, srcPath, rmsrc)]

\* atomicCopyAndDelete: a source that cannot be removed after the rename is
\* only logged (warned), and the call still succeeds
atomicCopyAndDelete(fs, srcPath, destPath, msg, fail, n, rm, rmsrc) ==
  LET tempFile == Tmp(destPath)
      content == fs[srcPath].data
      t == WriteTemp(fs, tempFile, content, fail, n, rm)
  IN IF fail = "mkdir" \/ fail = "opensrc" \/ ~fs[srcPath].exists
        \/ fail = "read"
     THEN Failed(fs)
     ELSE IF ~t.ok THEN Failed(t.files)
     ELSE LET renamed == OsRename(t.files, tempFile, destPath)
          IN [files |-> FSRemove(renamed, srcPath, rmsrc),
              err |-> FALSE, batch |-> <<msg>>,
              warned |-> FSRemoveFails(renamed, srcPath, rmsrc)]

\* processMove: the processor is built with a destination
\* (fileProcessorConfigFromParsed), so conf.Dest is never nil here
processMove(fs, srcPath, destPath, msg, fail, n, rm, rmsrc) ==
  IF fail \in {"path", "destpath"} THEN Failed(fs)
  ELSE atomicCopyAndDelete(fs, srcPath, destPath, msg, fail, n, rm, rmsrc)

\* what a call leaves in proc
ProcAfter(op, path, dest, content, r) ==
  [calls |-> proc.calls + 1, op |-> op, path |-> path, dest |-> dest,
   content |-> content, before |-> files, err |-> r.err, batch |-> r.batch,
   warned |-> r.warned]

\* Process with operation "write": the message's bytes go to the path
ProcessWrite(path, content, fail, n, rm) ==
  /\ proc.calls < MaxCalls
  /\ fail = "write" => n < Len(content)
  /\ fail \notin {"write", "close"} => n = 0
  /\ fail \in {"none", "path", "bytes", "mkdir", "open"} => rm
  /\ LET r == processWrite(files, path, content, fail, n, rm)
     IN /\ files' = r.files
        /\ proc' = ProcAfter("write", path, "", content, r)
  /\ UNCHANGED <<regvars, cfg, eventChan, chans, mut, ctl, rd,
                 fixappstorelock, fault>>

\* Process with operation "move": the source's file goes to the destination
ProcessMove(srcPath, destPath, msg, fail, n, rm, rmsrc) ==
  /\ proc.calls < MaxCalls
  /\ fail = "write" => n < Len(files[srcPath].data)
  /\ fail \notin {"write", "close"} => n = 0
  /\ fail \notin {"writer", "write", "close", "rename"} => rm
  /\ fail # "none" => rmsrc
  /\ LET r == processMove(files, srcPath, destPath, msg, fail, n, rm, rmsrc)
     IN /\ files' = r.files
        /\ proc' = ProcAfter("move", srcPath, destPath, msg, r)
  /\ UNCHANGED <<regvars, cfg, eventChan, chans, mut, ctl, rd,
                 fixappstorelock, fault>>

\* FileSpec: the file processor called up to MaxCalls times, with writes
\* and moves over FilePaths, from any file system whose temporary paths are
\* free or hold stale bytes; any step of a call may fail.
FileInit ==
  /\ files \in [FilePaths -> {NoFile, FileOf(StaleBytes)}
                                \cup {FileOf(c) : c \in FileContents}]
  /\ \A p \in Targets : /\ files[p] # FileOf(StaleBytes)
                        /\ files[Tmp(p)] \in {NoFile, FileOf(StaleBytes)}
  /\ cfg = [a \in Adapters |-> DefaultCfg("p1")]
  /\ InitRegistry
  /\ InitAdapters

FileNext ==
  \/ \E path \in Targets, content \in FileContents, fail \in WriteFails,
        rm \in BOOLEAN :
       \E n \in 0..Len(content) : ProcessWrite(path, content, fail, n, rm)
  \/ \E srcPath \in FilePaths, destPath \in Targets, msg \in MoveMessages,
        fail \in MoveFails, rm \in BOOLEAN, rmsrc \in BOOLEAN :
       \E n \in 0..Len(files[srcPath].data) :
         ProcessMove(srcPath, destPath, msg, fail, n, rm, rmsrc)

FileSpec == FileInit /\ [][FileNext]_vars

----------------------------------------------------------------------------
(* Properties of the registry (RegistrySpec, HandleSpec) *)

\* the registry keeps every entry it has, with the handle it had
EntriesKept ==
  \A c \in DOMAIN fixappstore :
     c \in DOMAIN fixappstore' /\ fixappstore'[c] = fixappstore[c]

\* successful GetOrCreateFixApp calls returned the same handle exactly when
\* the files they named held the same bytes
SameHandleIffSameContents ==
  \A x \in returned, y \in returned : (x[2] = y[2]) <=> (x[1] = y[1])

\* C1: at any point, also after the handle's holders have stopped it, two
\* GetOrCreateFixApp calls return the same handle if and only if the files
\* they name have byte-identical contents, whatever the paths; a registry
\* entry, once created, is never removed or replaced.
C1_SameHandleIffSameContents ==
  [](SameHandleIffSameContents /\ Cardinality(DOMAIN fixappstore) = Len(apps))
    /\ [][EntriesKept]_vars

\* two paths with the same contents gave one handle, which has been stopped,
\* and another content gave another handle
C1_Witness ==
  \E x \in returned, y \in returned, z \in returned :
     /\ x[3] # y[3] /\ x[1] = y[1] /\ x[2] = y[2]
     /\ hist[x[2]].stops > 0
     /\ z[1] # x[1] /\ z[2] # x[2]

\* C3: for every N >= 1, after N Start calls on a fresh handle its refcount
\* is N; of the Stop calls that follow, the first N-1 do not invoke the
\* engine's Stop and leave the handle its engine, and the Nth invokes it.
C3_LastStopStopsEngine ==
  \A h \in DOMAIN apps :
     ~hist[h].startAfterStop =>
       /\ hist[h].stops = 0 => apps[h].refcount = hist[h].starts
       /\ hist[h].stops < hist[h].starts =>
            /\ hist[h].engineStops = 0
            /\ EngineOf(apps[h]) = hist[h].engine
            /\ apps[h].refcount = hist[h].starts - hist[h].stops
       /\ (/\ hist[h].starts >= 1
           /\ hist[h].stops = hist[h].starts
           /\ hist[h].engine # NoEngine) => hist[h].engineStops = 1

\* a handle with an engine was started three times and stopped three times
C3_Witness ==
  \E h \in DOMAIN apps :
     /\ ~hist[h].startAfterStop
     /\ hist[h].engine # NoEngine
     /\ hist[h].starts = 3 /\ hist[h].stops = 3
     /\ hist[h].engineStops = 1

----------------------------------------------------------------------------
(* Properties of the adapters (ConnectSpec, Spec, FairSpec) *)

\* Connect has been called once on adapter a, has not failed, and no Close
\* has been called on it
ConnectsOnce(a) ==
  /\ ctl[a].connects = 1
  /\ ctl[a].last = "connect"
  /\ ctl[a].ret # "err"

\* that Connect has returned
Connected(a) == ConnectsOnce(a) /\ ctl[a].pc = "idle" /\ ctl[a].ret = "ok"

\* the two adapters name files with the same bytes and a role that has an
\* engine
SameConfiguration ==
  /\ files[cfg["q1"].config].data = files[cfg["q2"].config].data
  /\ \A a \in Adapters : cfg[a].appType \in {acceptorType, initiatorType}

\* C2: in every interleaving of one Connect on each of two adapters whose
\* configuration is byte-identical, at most one engine is constructed; once
\* both Connects have returned exactly one has been, both adapters hold the
\* same handle, and its refcount is 2.
C2_OneConstructionSharedHandle ==
  (SameConfiguration /\ ConnectsOnce("q1") /\ ConnectsOnce("q2")) =>
    /\ ctl["q1"].built + ctl["q2"].built <= 1
    /\ Len(engines) <= 1
    /\ (Connected("q1") /\ Connected("q2")) =>
         /\ ctl["q1"].built + ctl["q2"].built = 1
         /\ Len(engines) = 1
         /\ ctl["q1"].f = ctl["q2"].f
         /\ apps[ctl["q1"].f].refcount = 2

\* both Connects have returned, the second having found the first's entry
C2_Witness ==
  /\ SameConfiguration
  /\ Connected("q1") /\ Connected("q2")
  /\ ctl["q1"].built = 0 /\ ctl["q2"].built = 1

\* the channels that have been closed
Closed == {c \in DOMAIN chans : chans[c] = "closed"}

\* C4: in every reachable state no callback performs or is blocked in a
\* send on an event channel that has been closed.
C4_NoSendOnClosedChannel ==
  /\ fault # "send on closed channel"
  /\ \A c \in Closed : SendingWorkers(c) = {} /\ SendingCallers(c) = {}

\* C5: while a Close has not completed the handle's Stop, the adapter's
\* event channel is not closed.
C5_StopBeforeChannelClose ==
  \A a \in Adapters :
     ctl[a].pc \in {"close_get", "close_oncreate", "close_stop",
                    "close_stopping"}
       => eventChan[a] \notin Closed

\* the step of adapter a's Read in which it returns ctx.Err()
ReturnsCanceled(a) ==
  rd[a].pc = "select" /\ rd'[a].pc = "idle" /\ rd'[a].ret = ErrCanceled

\* the step of adapter a's Read in which it returns a message
ReturnsMessage(a) ==
  rd[a].pc = "select" /\ rd'[a].pc = "idle" /\ rd'[a].ret = "message"

\* worker w's callback was blocked with the event of message m and has
\* returned, and no other callback has moved
Delivers(w, m) ==
  LET cb == engines[w[1]].cb[w[2]] IN
  /\ m.engine = w[1] /\ m.session = w[2] /\ m.n = cb.n
  /\ m.quickfix_event = cb.eventType /\ m.payload = cb.message
  /\ engines' = [engines EXCEPT ![w[1]].cb[w[2]].pc = "idle"]

\* C6: a Read that returns the cancellation error consumes no event: every
\* callback blocked in its send stays blocked with its event, and the
\* channel is as it was; a Read that returns a message releases exactly the
\* callback whose event it returns (delivery of the event is left to a
\* later Read, and happens once).
C6_CancelledReadConsumesNothing ==
  [][\A a \in Adapters :
       /\ ReturnsCanceled(a) =>
            engines' = engines /\ chans' = chans /\ eventChan' = eventChan
       /\ ReturnsMessage(a) =>
            \E w \in SendingWorkers(rd[a].ch) : Delivers(w, rd'[a].msg)]_vars

\* a Read with a live context returned the event that was pending when an
\* earlier Read returned the cancellation error
C6_Witness ==
  \E a \in Adapters :
     /\ rd[a].pc = "idle" /\ rd[a].ret = "message" /\ rd[a].ctx = "live"
     /\ <<rd[a].msg.engine, rd[a].msg.session, rd[a].msg.n>> \in rd[a].missed

\* C9: a Read that finds no event channel (before a successful Connect, or
\* after the closure of the channel has been observed) returns
\* ErrNotConnected in that step, without entering the select and without
\* changing the adapter, the registry or a handle; ErrNotConnected is
\* returned in no other case.
C9_NotConnectedChangesNothing ==
  /\ [](\A a \in Adapters : rd[a].ret = ErrNotConnected => rd[a].ch = NilChan)
  /\ [][\A a \in Adapters :
          (rd[a].pc = "lock" /\ rd'[a].pc # "lock" /\ eventChan[a] = NilChan)
            => /\ rd'[a].pc = "idle"
               /\ rd'[a].ret = ErrNotConnected
               /\ UNCHANGED <<files, regvars, cfg, proc, eventChan, chans, mut,
                              ctl, fixappstorelock, fault>>]_vars

\* a Read called after Close, once the closure had been observed, returned
\* ErrNotConnected
C9_Witness ==
  \E a \in Adapters :
     /\ rd[a].pc = "idle" /\ rd[a].ret = ErrNotConnected
     /\ rd[a].afterClose
     /\ eventChan[a] = NilChan /\ Closed # {}

\* C10: the message a Read returns carries as metadata the kind of the
\* callback that produced its event and the session identifier that callback
\* was invoked for.
C10_MetadataKindAndSession ==
  \A a \in Adapters :
     (rd[a].pc = "idle" /\ rd[a].ret = "message") =>
       /\ rd[a].msg.quickfix_event = rd[a].msg.kind
       /\ rd[a].msg.quickfix_session_id = rd[a].msg.session

\* adapter a's Read is in progress with its context cancelled
CancelledInRead(a) == rd[a].pc # "idle" /\ rd[a].ctx = "canceled"

\* C7: once the context of a Read in progress is cancelled, the Read
\* returns (unless the process has ended in a panic).
C7_CancelledReadReturns ==
  \A a \in Adapters : CancelledInRead(a) ~> (rd[a].pc = "idle" \/ ~Alive)

\* adapter a's Read has its copy of a channel that is closed
OnClosedChannel(a) ==
  rd[a].pc \in {"select", "closed"} /\ rd[a].ch \in Closed

\* C8 as stated: every Read called after a Close has returned (and before
\* another Connect is called) returns ErrEndOfInput, whatever its context.
C8_EveryReadAfterCloseEndsInput ==
  \A a \in Adapters :
     (rd[a].pc = "idle" /\ rd[a].ret # "none" /\ rd[a].afterClose)
       => rd[a].ret = ErrEndOfInput

\* C8, amended: a Read whose copy of the channel is closed does not block:
\* it returns (unless the process has ended in a panic), and what it returns
\* is ErrEndOfInput, having set q.eventChan to nil, or, when its context is
\* cancelled, possibly ctx.Err() instead.
C8_ReadOnClosedChannelEnds ==
  /\ \A a \in Adapters : OnClosedChannel(a) ~> (rd[a].pc = "idle" \/ ~Alive)
  /\ [][\A a \in Adapters :
          (OnClosedChannel(a) /\ rd'[a].pc = "idle") =>
            \/ rd'[a].ret = ErrEndOfInput /\ eventChan'[a] = NilChan
            \/ rd[a].ctx = "canceled" /\ rd'[a].ret = ErrCanceled]_vars

\* after Close, a Read with a live context returned ErrEndOfInput
C8_Witness ==
  \E a \in Adapters :
     /\ rd[a].pc = "idle" /\ rd[a].ret = ErrEndOfInput
     /\ rd[a].afterClose /\ rd[a].ctx = "live"
     /\ rd[a].ch \in Closed /\ eventChan[a] = NilChan

----------------------------------------------------------------------------
(* Properties of the handle's life cycle (HandleSpec) *)

\* handle h was created with an engine, and as many Stop calls as Start
\* calls (at least one) have been made on it, all Starts first
Released(h) ==
  /\ hist[h].engine # NoEngine
  /\ ~hist[h].startAfterStop
  /\ hist[h].starts >= 1
  /\ hist[h].stops = hist[h].starts

\* C11: when the last holder's Stop on a Started handle has returned, the
\* engine has been stopped, the handle has no engine reference, its state is
\* Stopped and its refcount is 0.
C11_LastStopLeavesStopped ==
  \A h \in DOMAIN apps :
     Released(h) =>
       /\ hist[h].engineStops = 1
       /\ ~engines[hist[h].engine].running
       /\ EngineOf(apps[h]) = NoEngine
       /\ apps[h].state = fixappstatestopped
       /\ apps[h].refcount = 0

\* C12: in every reachable state a handle whose state is Started has an
\* engine (acceptor or initiator).
C12_StartedHasEngine ==
  \A h \in DOMAIN apps :
     apps[h].state = fixappstatestarted => EngineOf(apps[h]) # NoEngine

\* C13: in every reachable state every handle's refcount is >= 0.
C13_RefcountNonNegative ==
  \A h \in DOMAIN apps : apps[h].refcount >= 0

\* C18: a Start on a Stopped handle whose engine fails to start returns the
\* error, and leaves the handle Started with its refcount one higher.
C18_FailedStartStillStarts ==
  \A h \in DOMAIN apps :
     (apps[h].state = fixappstatestopped /\ EngineOf(apps[h]) # NoEngine) =>
       LET r == fixappStart(h, FALSE) IN
       /\ r.err /\ r.engineStart
       /\ r.apps[h].state = fixappstatestarted
       /\ r.apps[h].refcount = apps[h].refcount + 1
       /\ \A g \in DOMAIN apps \ {h} : r.apps[g] = apps[g]

\* a handle's first Start invoked the engine's Start, which failed, and the
\* handle is Started with refcount 1
C18_Witness ==
  \E h \in DOMAIN apps :
     /\ hist[h].starts = 1 /\ hist[h].stops = 0
     /\ hist[h].engineStarts = 1
     /\ ~engines[hist[h].engine].running
     /\ apps[h].state = fixappstatestarted /\ apps[h].refcount = 1

\* the step is a Start call on handle h
StartCalled(h) ==
  h \in DOMAIN hist /\ hist'[h].starts = hist[h].starts + 1

\* that Start invoked the engine's Start
EngineStartInvoked(h) == hist'[h].engineStarts = hist[h].engineStarts + 1

\* C19: on a handle created with an engine, Start invokes the engine's
\* Start if and only if the handle's state is Stopped when it is called; the
\* last holder's Stop returns the handle to Stopped, so that the next Start
\* invokes the engine's Start again.
C19_StartsEngineIffStopped ==
  [][\A h \in DOMAIN apps :
       (StartCalled(h) /\ hist[h].engine # NoEngine) =>
         /\ EngineStartInvoked(h) <=> apps[h].state = fixappstatestopped
         /\ Released(h) => EngineStartInvoked(h)]_vars

----------------------------------------------------------------------------
(* Properties of failing calls (ErrorSpec) *)

\* whether a GetOrCreateFixApp call of kinds k on path p, answered env by
\* the environment, meets a failure: the file cannot be opened, or, with no
\* entry registered for its contents, the settings do not parse, the store
\* or log kind is unknown, the file log cannot be opened or the engine's
\* constructor fails
MeetsFailure(k, p, env) ==
  \/ ~files[p].exists
  \/ /\ createChecksum(p).chk \notin DOMAIN fixappstore
     /\ \/ ~env.parse
        \/ k[2] \notin {messageStoreMem, messageStoreFile}
        \/ k[3] \notin {logFactoryFile, logFactoryScreen}
        \/ k[3] = logFactoryFile /\ ~env.log
        \/ k[1] \in {acceptorType, initiatorType} /\ ~env.engine

\* a GetOrCreateFixApp that fails returns an error and no handle, and
\* leaves the registry, the handles and the engines as they are
FailureChangesNothing ==
  \A k \in Kinds, p \in Paths, env \in Envs :
     LET r == GetOrCreateFixApp(k[1], k[2], k[3], "q1", p, env) IN
     /\ r.err <=> MeetsFailure(k, p, env)
     /\ r.err => /\ r.f = NoApp
                 /\ r.store = fixappstore
                 /\ r.apps = apps
                 /\ r.engines = engines

\* the step in which adapter a's Connect returns from GetOrCreateFixApp
\* without going on
ConnectReturnsEarly(a) == ctl[a].pc = "connect_get" /\ ctl'[a].pc = "idle"

----------------------------------------------------------------------------
(* Properties of the event channel (Spec) *)

\* C15: a callback that builds its event is from then on blocked in its
\* send (the channel holds nothing), and it returns only in the step in
\* which a Read of its adapter, holding the channel it sends on, returns
\* that event.
C15_CallbackBlocksUntilRead ==
  [][\A e \in DOMAIN engines, s \in Sessions :
       LET w == engines[e].cb[s]
           x == engines'[e].cb[s]
       IN  /\ x.n # w.n => (x.pc = "sending" \/ fault' # "none")
           /\ (w.pc = "sending" /\ x.pc = "idle") =>
                \E a \in {engines[e].app} :
                   /\ ReturnsMessage(a)
                   /\ rd[a].ch = w.ch
                   /\ Delivers(<<e, s>>, rd'[a].msg)]_vars

\* a callback has returned, and a Read has returned its event
C15_Witness ==
  \E a \in Adapters :
     /\ rd[a].pc = "idle" /\ rd[a].ret = "message"
     /\ engines[rd[a].msg.engine].cb[rd[a].msg.session].pc = "idle"
     /\ engines[rd[a].msg.engine].cb[rd[a].msg.session].n = rd[a].msg.n

\* C20: a Read called with a context that is already cancelled returns no
\* event, also when a callback is blocked in its send on the channel.
C20_PreCancelledReadGetsNoEvent ==
  \A a \in Adapters :
     (rd[a].pc = "idle" /\ rd[a].ctx = "canceled") => rd[a].ret # "message"

----------------------------------------------------------------------------
(* Properties of the file processor (FileSpec) *)

\* the last call was a write that returned no error
WriteSucceeded == proc.op = "write" /\ ~proc.err

\* C16: after a successful write the file at the path holds exactly the
\* message's bytes, the returned batch is the one input message, and no
\* file exists at path + ".tmp".
C16_WriteLeavesExactlyTheMessage ==
  WriteSucceeded =>
    /\ files[proc.path] = FileOf(proc.content)
    /\ proc.batch = <<proc.content>>
    /\ ~files[Tmp(proc.path)].exists

\* a successful write over a file with other bytes, with a stale temporary
\* file in place before the call
C16_Witness ==
  /\ WriteSucceeded
  /\ proc.before[proc.path].exists
  /\ proc.before[proc.path].data # proc.content
  /\ proc.before[Tmp(proc.path)].exists
  /\ files[proc.path] = FileOf(proc.content)

\* the last call was a move between two distinct paths that returned no
\* error
MoveSucceeded == proc.op = "move" /\ ~proc.err /\ proc.path # proc.dest

\* the destination holds the bytes the source held before the call, and no
\* file exists at dest + ".tmp"
MoveDelivered ==
  /\ files[proc.dest] = FileOf(proc.before[proc.path].data)
  /\ ~files[Tmp(proc.dest)].exists

\* C17 as stated: after a successful move between distinct paths the
\* destination holds the source's former bytes, the source no longer
\* exists, and no file exists at dest + ".tmp".
C17_MoveRemovesSource ==
  MoveSucceeded => MoveDelivered /\ ~files[proc.path].exists

\* C17, amended: after a successful move between distinct paths the
\* destination holds the source's former bytes and no file exists at
\* dest + ".tmp"; the source no longer exists unless its removal failed, in
\* which case it is left as it was before the call.
C17_MoveRemovesSourceUnlessRemovalFails ==
  MoveSucceeded =>
    /\ MoveDelivered
    /\ \/ ~files[proc.path].exists
       \/ proc.warned /\ files[proc.path] = proc.before[proc.path]

\* a successful move onto an existing file with other bytes, whose source
\* was removed
C17_Witness ==
  /\ MoveSucceeded
  /\ ~proc.warned
  /\ proc.before[proc.dest].exists
  /\ proc.before[proc.dest].data # proc.before[proc.path].data
  /\ files[proc.dest].data = proc.before[proc.path].data
  /\ ~files[proc.path].exists

----------------------------------------------------------------------------
(* Properties of lookups of registered contents (RegistrySpec) *)

\* the file at p is readable and its contents are registered
Registered(p) ==
  /\ ~createChecksum(p).err
  /\ createChecksum(p).chk \in DOMAIN fixappstore

\* the call finds the handle of p's contents: no error, that handle, and
\* the registry, every handle and every engine as they were
ReturnsExisting(r, p) ==
  /\ ~r.err
  /\ r.f = fixappstore[createChecksum(p).chk]
  /\ r.store = fixappstore
  /\ r.apps = apps
  /\ r.engines = engines

\* C21: a GetOrCreateFixApp for contents already in the registry returns
\* the existing handle, without error and without modifying it, whatever
\* role, store kind and log kind it requests and whatever the environment
\* would answer to a construction; the engine keeps the role it was
\* created with.
C21_LookupIgnoresKinds ==
  \A p \in Paths :
    Registered(p) =>
      \A k \in Kinds, a \in Adapters, env \in Envs :
        ReturnsExisting(GetOrCreateFixApp(k[1], k[2], k[3], a, p, env), p)

\* a handle created as an acceptor that calls naming two paths have
\* returned, and that a call requesting an initiator with a store kind that
\* cannot be created still returns
C21_Witness ==
  \E h \in DOMAIN apps, c \in Contents :
    /\ {<<c, h, "p1">>, <<c, h, "p2">>} \subseteq returned
    /\ hist[h].engine # NoEngine
    /\ engines[hist[h].engine].kind = acceptorType
    /\ Registered("p2")
    /\ GetOrCreateFixApp(initiatorType, "other", logFactoryFile, "q2", "p2",
                         Env("log")).f = h

----------------------------------------------------------------------------
(* Properties of the locks (ConnectSpec) *)

\* adapter a's goroutine is about to call Start, or Stop, on its handle
\* while another goroutine holds the registry lock
StartsUnderForeignLock(a) ==
  /\ Alive
  /\ ctl[a].pc \in {"connect_start", "close_stop"}
  /\ fixappstorelock \in Adapters \ {a}

\* C22: a handle's state and refcount have a lock of their own, so a Start
\* or Stop on a handle can complete while another goroutine holds the
\* registry lock, for instance inside GetOrCreateFixApp for other contents.
C22_StartStopIndependentOfRegistryLock ==
  \A a \in Adapters :
    StartsUnderForeignLock(a) =>
      \/ ENABLED ConnectStart(a, TRUE)
      \/ ENABLED CloseStop(a)

----------------------------------------------------------------------------
(* Properties of delivery (DeliverySpec) *)

\* the events of worker <<e, s>> among those the Reads of adapter a have
\* returned, in the order they were returned
DeliveredFrom(a, e, s) ==
  SelectSeq(rd[a].log, LAMBDA x : x[1] = e /\ x[2] = s)

\* the callbacks of worker <<e, s>> whose send has completed
Handed(e, s) ==
  IF engines[e].cb[s].pc = "idle" THEN engines[e].cb[s].n
  ELSE engines[e].cb[s].n - 1

\* C23: the Reads of an adapter return the events of one worker's callbacks
\* in the order the worker invoked them, each once: the k-th event returned
\* from a worker is that of its k-th callback, and every callback that has
\* returned has had its event returned by a Read.
C23_EventsInCallbackOrder ==
  \A e \in DOMAIN engines, s \in Sessions :
    LET d == DeliveredFrom(engines[e].app, e, s) IN
    /\ \A k \in 1..Len(d) : d[k][3] = k
    /\ Len(d) = Handed(e, s)
    /\ \A a \in Adapters \ {engines[e].app} : DeliveredFrom(a, e, s) = <<>>

\* Reads have returned two events of each of two workers, the second
\* worker's first, with a cancelled Read that left an event pending
C23_Witness ==
  \E e \in DOMAIN engines :
    /\ Len(rd["q1"].log) = 4
    /\ rd["q1"].log[1] = <<e, "S2", 1>>
    /\ rd["q1"].log[2] = <<e, "S1", 1>>
    /\ Len(DeliveredFrom("q1", e, "S1")) = 2
    /\ Len(DeliveredFrom("q1", e, "S2")) = 2
    /\ rd["q1"].missed # {}

----------------------------------------------------------------------------
(* Properties of the payload (CopySpec) *)

\* adapter a's Read returns a message in this step
ReadReturnsMessage(a) == rd[a].pc = "select" /\ rd'[a].ret = "message"

\* C24: the payload a Read returns is the message as it was when the
\* callback was handed it, whatever the engine has done to its buffer
\* since; events of kinds create, logon and logout carry no payload.
C24_PayloadIsCopy ==
  [][\A a \in Adapters :
       ReadReturnsMessage(a) =>
         LET m == rd'[a].msg
             w == engines[m.engine].cb[m.session]
         IN /\ m.payload = w.arg
            /\ m.kind \notin MessageEvents => m.payload = NilMessage
            /\ m.kind \in MessageEvents => m.payload \in Messages]_vars

\* a Read has returned the message of a FromApp callback whose buffer the
\* engine reused while the event was pending
C24_Witness ==
  \E e \in DOMAIN engines, s \in Sessions :
    LET w == engines[e].cb[s] IN
    /\ rd["q1"].ret = "message"
    /\ rd["q1"].msg.engine = e /\ rd["q1"].msg.session = s
    /\ rd["q1"].msg.n = w.n /\ w.pc = "idle"
    /\ rd["q1"].msg.kind = fromAppEvent
    /\ rd["q1"].msg.payload = "m1"
    /\ w.buf = Reused

----------------------------------------------------------------------------
(* Properties of failing and degenerate moves (FileSpec) *)

\* the last call was a move of a file that existed
MovedExisting == proc.op = "move" /\ proc.before[proc.path].exists

\* C25: a move never loses the file's content: after any move call,
\* successful or failed at any step, the bytes the source held before the
\* call are at the source path or at the destination path, also when the
\* two are the same path.
C25_MoveKeepsContent ==
  MovedExisting =>
    \/ files[proc.path] = proc.before[proc.path]
    \/ files[proc.dest] = FileOf(proc.before[proc.path].data)

----------------------------------------------------------------------------
(* Frame of a write (FileSpec) *)

\* the last call was a write, successful or failed
WriteCalled == proc.op = "write"

----------------------------------------------------------------------------
(* Properties of shared handles (ShareSpec) *)

\* every event the Reads of adapter a have returned is of an engine that
\* was constructed with a as its application
ReadsOwnEnginesOnly(a) ==
  \A k \in 1..Len(rd[a].log) : engines[rd[a].log[k][1]].app = a

\* worker <<e, s>> begins a send in this step
BeginsSend(e, s) ==
  /\ e \in DOMAIN engines
  /\ engines[e].cb[s].pc = "idle"
  /\ engines'[e].cb[s].pc = "sending"

\* C26: when adapters share a handle, every callback of its engine sends on
\* the channel of the adapter the engine was constructed with, and no Read
\* of another adapter returns an event of that engine.
C26_EventsGoToCreator ==
  /\ [](\A a \in Adapters : ReadsOwnEnginesOnly(a))
  /\ [][\A e \in DOMAIN engines, s \in Sessions :
          BeginsSend(e, s) =>
            engines'[e].cb[s].ch = eventChan[engines[e].app]]_vars

\* both adapters are connected to one handle, the Reads of the adapter that
\* built the engine have returned its events, and a Read of the other
\* adapter waits on that adapter's channel with nothing returned
C26_Witness ==
  \E e \in DOMAIN engines :
    /\ ctl["q1"].f # NoApp /\ ctl["q1"].f = ctl["q2"].f
    /\ EngineOf(apps[ctl["q1"].f]) = e
    /\ engines[e].app = "q1"
    /\ Len(rd["q1"].log) = 2
    /\ eventChan["q2"] # NilChan
    /\ rd["q2"].pc = "select" /\ rd["q2"].ch = eventChan["q2"]
    /\ rd["q2"].log = <<>>

----------------------------------------------------------------------------
(* Properties of Close (ErrorSpec, Spec) *)

\* C27: the handle on which Close calls Stop is the one on which the
\* adapter's Connect called Start, also when the configuration file has
\* changed or has become unreadable in between, and Close creates no
\* registry entry and no engine.
C27_CloseStopsConnectedHandle ==
  [][\A a \in Adapters :
       ctl[a].pc = "close_get" =>
         /\ fixappstore' = fixappstore
         /\ engines' = engines
         /\ ctl'[a].pc = "close_stop" => ctl'[a].f = ctl[a].f]_vars

\* Close is called on adapter a in this step
CloseCalled(a) ==
  ctl[a].pc = "idle" /\ ctl'[a] # ctl[a] /\ ctl'[a].last = "close"

\* adapter a's channel field is nil or holds a closed channel
NilOrClosed(a) ==
  eventChan[a] = NilChan \/ chans[eventChan[a]] = "closed"

\* C28: a Close on an adapter whose channel field is nil or whose channel
\* is already closed faults at the close of the channel: it does not reach
\* GetOrCreateFixApp or Stop, the registry, the handles and the engines are
\* as they were, and the process takes no step after the fault.
C28_CloseOfNilOrClosedFaults ==
  /\ [][\A a \in Adapters :
          CloseCalled(a) /\ NilOrClosed(a) =>
            /\ fault' \in {"close of nil channel", "close of closed channel"}
            /\ ctl'[a].pc = "idle"
            /\ UNCHANGED <<fixappstore, apps, engines>>]_vars
  /\ [][fault = "none"]_vars

\* a second Close has faulted on the channel the first one closed, with
\* the handle as the first Close left it
C28_Witness ==
  /\ fault = "close of closed channel"
  /\ ctl["q1"].last = "close" /\ ctl["q1"].pc = "idle"
  /\ ctl["q1"].f # NoApp
  /\ hist[ctl["q1"].f].stops = 1

----------------------------------------------------------------------------
(* Properties of Connect (FairSpec, ErrorSpec) *)

\* C29: a Connect that has been called eventually returns (or the process
\* has faulted), also when the engine invokes a callback of the adapter
\* while it is being constructed, that is, while Connect holds q.mut and the
\* registry lock and has not made the channel yet.
C29_ConnectReturns ==
  \A a \in Adapters :
    (ctl[a].pc = "connect_get") ~> (ctl[a].pc = "idle" \/ fault # "none")

\* adapter a's Connect, whose GetOrCreateFixApp has succeeded, calls Start
\* and returns in this step
ConnectFinishes(a) == ctl[a].pc = "connect_start" /\ ctl'[a].pc = "idle"

\* the engine of handle h is not running: its Start failed or was not
\* invoked, or the handle has no engine
NotRunning(h) ==
  EngineOf(apps[h]) = NoEngine \/ ~engines[EngineOf(apps[h])].running

\* C30: a Connect whose GetOrCreateFixApp succeeded returns success
\* whatever its handle's Start does: also when the engine's start fails or
\* the handle has no engine, the adapter is left with its channel made and
\* the handle's refcount is one higher.
C30_ConnectIgnoresStartError ==
  [][\A a \in Adapters :
       ConnectFinishes(a) =>
         /\ ctl'[a].ret = "ok"
         /\ eventChan'[a] # NilChan /\ chans'[eventChan'[a]] = "open"
         /\ apps'[ctl[a].f].refcount = apps[ctl[a].f].refcount + 1
         /\ apps'[ctl[a].f].state = fixappstatestarted]_vars

\* a Connect has returned success although the start of its engine failed
C30_Witness ==
  /\ ctl["q1"].pc = "idle" /\ ctl["q1"].last = "connect"
  /\ ctl["q1"].ret = "ok"
  /\ ctl["q1"].f # NoApp
  /\ hist[ctl["q1"].f].engineStarts = 1
  /\ NotRunning(ctl["q1"].f)
  /\ apps[ctl["q1"].f].refcount = 1
  /\ eventChan["q1"] # NilChan
====
